---- MODULE Spec2Model ----
(***************************************************************************)
(* Model of the interview-coder overlay application.                       *)
(*                                                                         *)
(*  - Application State (electron/main.ts, class AppState)                 *)
(*  - Shortcut Dispatcher (electron/shortcuts.ts = src/unnamed/part_000)   *)
(*  - external API calls (src/unnamed/part_001)                            *)
(*  - Window Controller (electron/WindowHelper.ts = src/unnamed/part_002)  *)
(*  - IPC bridge (electron/preload.ts) and the UI's App effect (App.tsx)   *)
(*                                                                         *)
(* ProcessingHelper and ScreenshotHelper are not part of the sources; the  *)
(* operators that stand for them follow the design document and say so     *)
(* where they are defined.                                                 *)
(***************************************************************************)
EXTENDS Integers, Sequences, FiniteSets, TLC

\* ------------------------------------------------------------------ bounds
MaxAttempts == 2      \* solve / debug attempts started in one behaviour
MaxShots    == 2      \* screenshots captured in one behaviour
MaxOutbox   == 1      \* notifications in flight between the two processes
MaxContent  == 5      \* characters of a model response body
MaxSubs     == 2      \* subscriptions made through the bridge

\* --------------------------------------------------------- program constants
MinHeight    == 100   \* Math.max(Math.ceil(height), 100)
WidthPadding == 32    \* Math.min(width + 32, maxAllowedWidth)
InitialHeight == 600  \* windowSettings.height
InitialWidth  == 800  \* BrowserWindow's default width (none is given)
HttpTooManyRequests == 429
HttpUnauthorized    == 401
HttpNotFound        == 404

Null == 0             \* null / no attempt

VARIABLES
  \* AppState (main.ts) and the shortcut registration of initializeApp
  view, mode, textQuery, problemInfo, hasDebugged, shortcutsRegistered,
  \* ScreenshotHelper
  screenshotQueue, extraScreenshotQueue, shView, nextShot,
  \* ProcessingHelper
  current, nextId, calls, aborted,
  \* WindowHelper
  mainWindow, isWindowVisible, windowPosition, windowSize,
  screenWidth, screenHeight, step, currentX, currentY,
  \* the BrowserWindow and the display
  bounds, shown, workArea,
  \* IPC channel main -> renderer, renderer-side listeners, UI
  outbox, listeners, appEffect,
  \* history: what was emitted / handled, last operation
  emitted, uiHandled, resetIds, seenAtReset, lastOp, lastReq,
  \* inputs and result of one external API call (SpecApi)
  apiIn, apiOut,
  \* ipcRenderer's listeners, the unsubscribe handles not yet called, the
  \* callbacks the last notification invoked (SpecBridge)
  ipcOn, handles, invoked, nextSub,
  \* the mode Queue shows (its useState)
  uiMode,
  \* the view App shows (its useState): Queue is mounted while it is "queue"
  uiView,
  \* the UI's query cache; the persisted session (electron-store), the
  \* session of AuthService and of the supabase client, AuthProvider's
  \* isAuthenticated; the load of the saved session the AuthService
  \* constructor starts and the value it read; AuthService.signOut between
  \* its await and its last statements; history: signed out and not in again
  cache, stored, session, sbSession, isAuthenticated, load, loadValue,
  signingOut, signedOut,
  \* AuthProvider's hasSubscription, the subscription checks it awaits (for
  \* the session of the last auth change, for earlier ones) and which of
  \* them set hasSubscription last
  sub,
  \* the screenshot files on disk, by capture number
  files,
  \* how far a capture under way has come: "none", "hidden", "taken"
  capPhase

appVars    == <<view, mode, textQuery, problemInfo, hasDebugged,
                shortcutsRegistered>>
shotVars   == <<screenshotQueue, extraScreenshotQueue, shView, nextShot>>
procVars   == <<current, nextId, calls, aborted>>
winVars    == <<mainWindow, isWindowVisible, windowPosition, windowSize,
                screenWidth, screenHeight, step, currentX, currentY,
                bounds, shown, workArea>>
ipcVars    == <<outbox, listeners, appEffect>>
histVars   == <<emitted, uiHandled, resetIds, seenAtReset,
                lastOp, lastReq>>
apiVars    == <<apiIn, apiOut>>
bridgeVars == <<ipcOn, handles, invoked, nextSub>>
authVars   == <<cache, stored, session, sbSession, isAuthenticated, load,
                loadValue, signingOut, signedOut, sub>>
extVars    == <<bridgeVars, uiMode, uiView, authVars>>
\* everything but the sign-in state and lastOp
coreVars   == <<appVars, shotVars, procVars, winVars, ipcVars, apiVars,
                emitted, uiHandled, resetIds, seenAtReset, lastReq, files,
                capPhase>>
vars == <<appVars, shotVars, procVars, winVars, ipcVars, histVars, apiVars,
          extVars, files, capPhase>>

\* --------------------------------------------------------------- helpers
Min(a, b) == IF a < b THEN a ELSE b
Max(a, b) == IF a > b THEN a ELSE b
Range(s) == {s[i] : i \in 1..Len(s)}
SeqsUpTo(S, n) == UNION {[1..k -> S] : k \in 0..n}

\* ------------------------------------------------- external API functions
\* A response of the completion endpoint, as axios hands it to the caller:
\*   status  0 = no response at all (transport failure), otherwise HTTP status
\*   body    error.response.data.error.message ("" when the body has none)
\*   content the text the model returned (choices[0].message.content or
\*           function_call.arguments) on a 2xx response
Kinds    == {"text", "extract", "solve", "debug"}
Statuses == {0, 200, HttpUnauthorized, HttpNotFound, HttpTooManyRequests,
             500}
Bodies   == {"", "upstream: model overloaded"}
Chars    == {"'", "a", "1"}
Letters  == {"a"}

OutOfCredits == "API Key out of credits"
RefillHint   == ". Please refill your OpenAI API credits and try again."
KeyNotSet    == "OpenAI API key not set"
SyntaxError  == "SyntaxError: Unexpected token"

\* message of the error axios raises for a response
AxiosMessage(status) ==
  IF status = 0 THEN "Network Error"
  ELSE "Request failed with status code " \o ToString(status)

\* JSON.parse restricted to texts over Chars: a single quote never starts a
\* JSON value and no literal (true, false, null) is spelled with "a" alone,
\* so the valid texts are the numbers: non-empty runs of the digit.
JSONValid(content) ==
  /\ Len(content) > 0
  /\ \A i \in 1..Len(content) : content[i] = "1"

\* length of the run of letters that starts at position i
RECURSIVE LetterRun(_, _)
LetterRun(s, i) ==
  IF i <= Len(s) /\ s[i] \in Letters THEN 1 + LetterRun(s, i + 1) ELSE 0

\* content.replace(/'''[a-zA-Z]+/g, "")
RECURSIVE StripFence(_)
StripFence(s) ==
  IF s = <<>> THEN <<>>
  ELSE IF /\ Len(s) >= 4
          /\ s[1] = "'" /\ s[2] = "'" /\ s[3] = "'"
          /\ s[4] \in Letters
       THEN StripFence(SubSeq(s, 4 + LetterRun(s, 4), Len(s)))
       ELSE <<Head(s)>> \o StripFence(Tail(s))

\* results: a returned value, or a thrown error with its message (a sequence
\* of the pieces the code concatenates) and the response data the thrown
\* object still carries; parses counts the JSON.parse calls made
Returned(value, n) ==
  [ok |-> TRUE, value |-> value, msg |-> <<>>, data |-> "", parses |-> n]
Thrown(msg, data, n) ==
  [ok |-> FALSE, value |-> <<>>, msg |-> msg, data |-> data, parses |-> n]

\* the error the try block raises for a response that is not 2xx
Rethrown(resp, n) == Thrown(<<AxiosMessage(resp.status)>>, resp.body, n)

\* processTextQuery: the catch around JSON.parse strips the fence markers
\* and parses once more
processTextQueryNoRetry(hasKey, resp) ==
  IF ~hasKey THEN Thrown(<<KeyNotSet>>, "", 0)
  ELSE IF resp.status = 200 THEN
    IF JSONValid(resp.content) THEN Returned(resp.content, 1)
    ELSE Thrown(<<SyntaxError>>, "", 1)
  ELSE IF resp.status = HttpTooManyRequests THEN Thrown(<<OutOfCredits>>, "", 0)
  ELSE Rethrown(resp, 0)
processTextQuery(hasKey, resp) ==
  IF ~hasKey THEN Thrown(<<KeyNotSet>>, "", 0)
  ELSE IF resp.status = 200 THEN
    IF JSONValid(resp.content) THEN Returned(resp.content, 1)
    ELSE LET content == StripFence(resp.content)
         IN  IF JSONValid(content) THEN Returned(content, 2)
             ELSE Thrown(<<SyntaxError>>, "", 2)
  ELSE IF resp.status = HttpTooManyRequests THEN Thrown(<<OutOfCredits>>, "", 0)
  ELSE Rethrown(resp, 0)

\* extractProblemInfo: JSON.parse of function_call.arguments, no retry
extractProblemInfo(hasKey, resp) ==
  IF ~hasKey THEN Thrown(<<KeyNotSet>>, "", 0)
  ELSE IF resp.status = 200 THEN
    IF JSONValid(resp.content) THEN Returned(resp.content, 1)
    ELSE Thrown(<<SyntaxError>>, "", 1)
  ELSE IF resp.status = HttpTooManyRequests
       THEN Thrown(<<OutOfCredits, RefillHint>>, "", 0)
  ELSE Rethrown(resp, 0)

\* generateSolutionResponses: every error but 429 is wrapped in
\* "Error generating solutions: " + error.message
generateSolutionResponsesNoMessage(hasKey, resp) ==
  IF ~hasKey THEN Thrown(<<"Error generating solutions: ", KeyNotSet>>, "", 0)
  ELSE IF resp.status = 200 THEN
    IF JSONValid(resp.content) THEN Returned(resp.content, 1)
    ELSE Thrown(<<"Error generating solutions: ", SyntaxError>>, "", 1)
  ELSE IF resp.status = HttpTooManyRequests
       THEN Thrown(<<OutOfCredits, RefillHint>>, "", 0)
  ELSE Thrown(<<"Error generating solutions: ">>, "", 0)
generateSolutionResponses(hasKey, resp) ==
  IF ~hasKey THEN Thrown(<<"Error generating solutions: ", KeyNotSet>>, "", 0)
  ELSE IF resp.status = 200 THEN
    IF JSONValid(resp.content) THEN Returned(resp.content, 1)
    ELSE Thrown(<<"Error generating solutions: ", SyntaxError>>, "", 1)
  ELSE IF resp.status = HttpTooManyRequests
       THEN Thrown(<<OutOfCredits, RefillHint>>, "", 0)
  ELSE Thrown(<<"Error generating solutions: ", AxiosMessage(resp.status)>>,
              "", 0)

\* debugSolutionResponses: 404 and 401 have messages of their own, the
\* out-of-credits branch tests 401 again, everything else is wrapped in
\* "OpenAI API error: " + (the upstream message || error.message)
debugSolutionResponses(hasKey, resp) ==
  IF ~hasKey THEN Thrown(<<"OpenAI API error: ", KeyNotSet>>, "", 0)
  ELSE IF resp.status = 200 THEN
    IF JSONValid(resp.content) THEN Returned(resp.content, 1)
    ELSE Thrown(<<"OpenAI API error: ", SyntaxError>>, "", 1)
  ELSE IF resp.status = HttpNotFound
       THEN Thrown(<<"API endpoint not found. Please check the model name and URL.">>,
                   "", 0)
  ELSE IF resp.status = HttpUnauthorized
       THEN Thrown(<<"Authentication failed. Please check your API key.">>, "", 0)
  ELSE IF resp.status = HttpUnauthorized   \* second test of 401, never taken
       THEN Thrown(<<OutOfCredits, RefillHint>>, "", 0)
  ELSE Thrown(<<"OpenAI API error: ",
                IF resp.body # "" THEN resp.body ELSE AxiosMessage(resp.status)>>,
              "", 0)

ApiCall(kind, hasKey, resp) ==
  CASE kind = "text"    -> processTextQuery(hasKey, resp)
    [] kind = "extract" -> extractProblemInfo(hasKey, resp)
    [] kind = "solve"   -> generateSolutionResponses(hasKey, resp)
    [] kind = "debug"   -> debugSolutionResponses(hasKey, resp)

\* responses of the endpoint: a 2xx response has a content, any other an
\* optional error body
Responses(maxLen) ==
  {[status |-> 200, body |-> "", content |-> c] :
      c \in SeqsUpTo(Chars, maxLen)}
  \cup {[status |-> st, body |-> b, content |-> <<>>] :
      st \in Statuses \ {200, 0}, b \in Bodies}
  \cup {[status |-> 0, body |-> "", content |-> <<>>]}

\* ------------------------------------------------------ notification names
\* AppState.PROCESSING_EVENTS (main.ts) and the literal channels of shortcuts.ts
PROCESSING_EVENTS ==
  [UNAUTHORIZED |-> "procesing-unauthorized",
   NO_SCREENSHOTS |-> "processing-no-screenshots",
   API_KEY_OUT_OF_CREDITS |-> "processing-api-key-out-of-credits",
   NO_QUERY |-> "processing-no-query",
   INITIAL_START |-> "initial-start",
   PROBLEM_EXTRACTED |-> "problem-extracted",
   SOLUTION_SUCCESS |-> "solution-success",
   INITIAL_SOLUTION_ERROR |-> "solution-error",
   DEBUG_START |-> "debug-start",
   DEBUG_SUCCESS |-> "debug-success",
   DEBUG_ERROR |-> "debug-error"]

\* notifications of the progress of a solve attempt
ProgressChannels ==
  {PROCESSING_EVENTS.PROBLEM_EXTRACTED, PROCESSING_EVENTS.SOLUTION_SUCCESS}

\* ------------------------------------------------- the background process
\* The handlers of the background process run to completion one after the
\* other; each is written as a composition of the methods it calls, every
\* method a function on the state record of the process.
MainState ==
  [view |-> view, mode |-> mode, textQuery |-> textQuery,
   problemInfo |-> problemInfo, hasDebugged |-> hasDebugged,
   screenshotQueue |-> screenshotQueue,
   extraScreenshotQueue |-> extraScreenshotQueue, shView |-> shView,
   current |-> current, nextId |-> nextId, calls |-> calls,
   aborted |-> aborted, mainWindow |-> mainWindow,
   outbox |-> outbox, emitted |-> emitted, resetIds |-> resetIds,
   seenAtReset |-> seenAtReset]

SetMain(s) ==
  /\ view' = s.view /\ mode' = s.mode /\ textQuery' = s.textQuery
  /\ problemInfo' = s.problemInfo /\ hasDebugged' = s.hasDebugged
  /\ screenshotQueue' = s.screenshotQueue
  /\ extraScreenshotQueue' = s.extraScreenshotQueue /\ shView' = s.shView
  /\ current' = s.current /\ nextId' = s.nextId /\ calls' = s.calls
  /\ aborted' = s.aborted
  /\ outbox' = s.outbox /\ emitted' = s.emitted /\ resetIds' = s.resetIds
  /\ seenAtReset' = s.seenAtReset

\* what the background process holds at the moment it notifies the UI
Snapshot(s) ==
  [inflight |-> s.current,
   queued |-> Len(s.screenshotQueue) + Len(s.extraScreenshotQueue),
   problemInfo |-> s.problemInfo, view |-> s.view]

\* mainWindow.webContents.send(channel, ...); a mode-changed notification
\* carries appState.getMode().  On the side, the progress notifications are
\* recorded in emitted and the state a reset notification was sent in is
\* recorded in seenAtReset
send(s, ch, id) ==
  [s EXCEPT !.outbox = Append(@, [ch |-> ch, id |-> id,
                                  arg |-> IF ch = "mode-changed" THEN s.mode
                                          ELSE ""]),
            !.seenAtReset = IF ch = "reset-view" THEN Snapshot(s) ELSE @,
            !.emitted = IF ch \in ProgressChannels
                        THEN Append(@, [ch |-> ch, id |-> id]) ELSE @]

\* if (mainWindow) mainWindow.webContents.send(channel)
sendIfWindow(s, ch, id) == IF s.mainWindow THEN send(s, ch, id) ELSE s

\* a setView that leaves the Screenshot Store's view alone
setViewAppStateOnly(s, v) == [s EXCEPT !.view = v]

\* AppState.setView: this.view = view; this.screenshotHelper.setView(view)
setView(s, v) == [s EXCEPT !.view = v, !.shView = v]

\* ScreenshotHelper.clearQueues
clearHelperQueues(s) ==
  [s EXCEPT !.screenshotQueue = <<>>, !.extraScreenshotQueue = <<>>]

\* AppState.clearQueues
clearQueuesNoInfo(s) == setView(clearHelperQueues(s), "queue")
clearQueuesAndDebugFlag(s) ==
  setView([clearHelperQueues(s) EXCEPT !.problemInfo = Null,
                                       !.hasDebugged = FALSE], "queue")
clearQueues(s) ==
  setView([clearHelperQueues(s) EXCEPT !.problemInfo = Null], "queue")

\* AppState.toggleMode
toggleMode(s) ==
  [s EXCEPT !.mode = IF s.mode = "screenshot" THEN "text" ELSE "screenshot"]

\* ProcessingHelper.cancelOngoingRequests: abort the in-flight handle and
\* forget it
cancelOngoingRequests(s) ==
  [s EXCEPT !.aborted = @ \cup ({s.current} \ {Null}), !.current = Null]

\* start of a new attempt: the previous handle, if any, is cancelled and
\* discarded before the new one becomes the in-flight handle
startKeepPrevious(s, kind) ==
  [s EXCEPT !.current = s.nextId, !.nextId = @ + 1,
            !.calls = @ \cup {[id |-> s.nextId, kind |-> kind]}]
startAttempt(s, kind) ==
  LET c == cancelOngoingRequests(s)
  IN  [c EXCEPT !.current = s.nextId, !.nextId = @ + 1,
                !.calls = @ \cup {[id |-> s.nextId, kind |-> kind]}]

\* ProcessingHelper.processQuery
processQuery(s) ==
  IF ~s.mainWindow THEN s
  ELSE IF s.mode = "text" THEN
    send(startAttempt(s, "text"), PROCESSING_EVENTS.INITIAL_START, s.nextId)
  ELSE IF s.view = "queue" THEN
    IF s.screenshotQueue = <<>>
    THEN send(s, PROCESSING_EVENTS.NO_SCREENSHOTS, Null)
    ELSE setView(send(startAttempt(s, "extract"),
                      PROCESSING_EVENTS.INITIAL_START, s.nextId),
                 "solutions")
  ELSE
    IF s.extraScreenshotQueue = <<>>
    THEN send(s, PROCESSING_EVENTS.NO_SCREENSHOTS, Null)
    ELSE send(startAttempt(s, "debug"), PROCESSING_EVENTS.DEBUG_START, s.nextId)

\* String.prototype.trim on a text of blanks and letters
RECURSIVE TrimStart(_)
TrimStart(q) ==
  IF q # <<>> /\ Head(q) = " " THEN TrimStart(Tail(q)) ELSE q
RECURSIVE TrimEnd(_)
TrimEnd(q) ==
  IF q # <<>> /\ q[Len(q)] = " " THEN TrimEnd(SubSeq(q, 1, Len(q) - 1)) ELSE q
Trim(q) == TrimEnd(TrimStart(q))

\* shortcut CommandOrControl+Enter
solveHandlerNoTrim(s) ==
  IF s.mode = "text" /\ s.textQuery = <<>>
  THEN sendIfWindow(s, PROCESSING_EVENTS.NO_QUERY, Null)
  ELSE processQuery(s)
solveHandler(s) ==
  IF s.mode = "text" /\ Trim(s.textQuery) = <<>>
  THEN sendIfWindow(s, PROCESSING_EVENTS.NO_QUERY, Null)
  ELSE processQuery(s)

\* shortcut CommandOrControl+R
resetHandlerNoCancel(s) ==
  sendIfWindow(setView(clearQueues(s), "queue"), "reset-view", Null)
resetHandlerNotifyFirst(s) ==
  setView(clearQueues(cancelOngoingRequests(sendIfWindow(s, "reset-view", Null))),
          "queue")
resetHandler(s) ==
  sendIfWindow(setView(clearQueues(cancelOngoingRequests(s)), "queue"),
               "reset-view", Null)

\* shortcut CommandOrControl+Shift+T
toggleModeHandler(s) ==
  LET t == toggleMode(s) IN sendIfWindow(t, "mode-changed", Null)

\* ProcessingHelper: completion of an external call.  A result that arrives
\* for a cancelled attempt is dropped (and the aborted handle with it), and
\* nothing is sent once the window is gone; extraction success stores the
\* problem and starts solution generation; every other outcome ends the
\* attempt.
finish(s) == [s EXCEPT !.current = Null]
onResult(s, c, result) ==
  LET rest == [s EXCEPT !.calls = @ \ {c}]
  IN  IF c.id \in s.aborted THEN [rest EXCEPT !.aborted = @ \ {c.id}]
      ELSE IF result.ok THEN
        CASE c.kind = "extract" ->
               sendIfWindow(
                 [rest EXCEPT !.problemInfo = c.id,
                  !.calls = @ \cup {[id |-> c.id, kind |-> "solve"]}],
                 PROCESSING_EVENTS.PROBLEM_EXTRACTED, c.id)
          [] c.kind \in {"solve", "text"} ->
               sendIfWindow(finish(rest), PROCESSING_EVENTS.SOLUTION_SUCCESS, c.id)
          [] c.kind = "debug" ->
               sendIfWindow([finish(rest) EXCEPT !.hasDebugged = TRUE],
                            PROCESSING_EVENTS.DEBUG_SUCCESS, c.id)
      ELSE IF OutOfCredits \in Range(result.msg) THEN
        sendIfWindow(finish(rest), PROCESSING_EVENTS.API_KEY_OUT_OF_CREDITS, c.id)
      ELSE
        sendIfWindow(finish(rest),
                     IF c.kind = "debug" THEN PROCESSING_EVENTS.DEBUG_ERROR
                     ELSE PROCESSING_EVENTS.INITIAL_SOLUTION_ERROR, c.id)

\* the coordinator's state, read off the in-flight handle
CoordState ==
  IF current = Null
  THEN IF view = "solutions" /\ problemInfo # Null THEN "Done" ELSE "Idle"
  ELSE LET c == CHOOSE c \in calls : c.id = current
       IN  CASE c.kind = "extract" -> "Extracting"
             [] c.kind \in {"solve", "text"} -> "Solving"
             [] c.kind = "debug" -> "Debugging"

\* ScreenshotHelper.takeScreenshot: the capture goes to the queue of the
\* helper's current view
addScreenshot(s, p) ==
  IF s.shView = "queue"
  THEN [s EXCEPT !.screenshotQueue = Append(@, p)]
  ELSE [s EXCEPT !.extraScreenshotQueue = Append(@, p)]

\* shortcut CommandOrControl+H
captureHandler(s, p) ==
  IF s.mainWindow THEN send(addScreenshot(s, p), "screenshot-taken", Null)
  ELSE s

\* ------------------------------------------------------------- the bridge
\* electronAPI functions of preload.ts that subscribe to a channel
Exposed ==
  [onScreenshotTaken |-> "screenshot-taken",
   onSolutionsReady |-> "solutions-ready",
   onResetView |-> "reset-view",
   onSolutionStart |-> PROCESSING_EVENTS.INITIAL_START,
   onDebugStart |-> PROCESSING_EVENTS.DEBUG_START,
   onDebugSuccess |-> "debug-success",
   onDebugError |-> PROCESSING_EVENTS.DEBUG_ERROR,
   onSolutionError |-> PROCESSING_EVENTS.INITIAL_SOLUTION_ERROR,
   onProcessingNoScreenshots |-> PROCESSING_EVENTS.NO_SCREENSHOTS,
   onProblemExtracted |-> PROCESSING_EVENTS.PROBLEM_EXTRACTED,
   onSolutionSuccess |-> PROCESSING_EVENTS.SOLUTION_SUCCESS,
   onUnauthorized |-> PROCESSING_EVENTS.UNAUTHORIZED,
   onApiKeyOutOfCredits |-> PROCESSING_EVENTS.API_KEY_OUT_OF_CREDITS]

\* ipcRenderer.on / ipcRenderer.removeListener: the registry holds one entry
\* per listener function; removing a function that was never registered
\* removes nothing
on(reg, ch, fn) == reg \cup {[ch |-> ch, fn |-> fn]}
removeListener(reg, ch, fn) == reg \ {[ch |-> ch, fn |-> fn]}

\* a function created at the place it is used, equal to no registered one
Fresh == 0

\* electronAPI.on...(callback): the k-th subscription registers listener k
subscribe(reg, api, k) == on(reg, Exposed[api], k)

\* the unsubscribe handle a subscription returned: every function removes
\* the listener it registered, except onDebugSuccess, which hands
\* removeListener a new arrow function
unsubscribe(reg, api, k) ==
  removeListener(reg, Exposed[api],
                 IF api = "onDebugSuccess" THEN Fresh ELSE k)

\* the subscriptions App's effect makes, in the order of its array literal
AppSubscriptions ==
  <<"onProcessingStart", "onResetView", "onProblemExtracted",
    "onInitialSolutionGenerated", "onProcessingExtraSuccess", "onUnauthorized">>

\* the subscription of Queue's first effect
QueueModeSubscriptions == <<"onModeChanged">>

\* index of the first subscription whose function the bridge does not expose
\* (Len + 1 when all are exposed): calling it raises a TypeError and the
\* rest of the array literal is never evaluated
FirstMissing(subs) ==
  IF \E i \in 1..Len(subs) : subs[i] \notin DOMAIN Exposed
  THEN CHOOSE i \in 1..Len(subs) :
         /\ subs[i] \notin DOMAIN Exposed
         /\ \A j \in 1..(i - 1) : subs[j] \in DOMAIN Exposed
  ELSE Len(subs) + 1

\* listeners registered by an effect: [api, channel] for each call made
Registered(subs) ==
  {[api |-> subs[i], ch |-> Exposed[subs[i]]] : i \in 1..(FirstMissing(subs) - 1)}

\* ------------------------------------------------------ Window Controller
\* Positions that the controller computes with halves (currentX, currentY)
\* are kept in half pixels; everything handed to or read from the
\* BrowserWindow (bounds, windowPosition, windowSize, screenWidth, step) is
\* in whole pixels.  A null windowPosition / windowSize is the empty tuple.
\* primary displays: 40% and 75% of the first are not whole numbers
WorkAreas == {[width |-> 1366, height |-> 768], [width |-> 1920, height |-> 1080]}
\* requested sizes: degenerate, small, around the limits, oversized
ReqWidths  == {0, 200, 514, 515, 1408, 1409, 5000}
ReqHeights == {0, 99, 100, 101, 4000}
NoBounds == [x |-> 0, y |-> 0, width |-> 0, height |-> 0]

WinState ==
  [mainWindow |-> mainWindow, isWindowVisible |-> isWindowVisible,
   windowPosition |-> windowPosition, windowSize |-> windowSize,
   screenWidth |-> screenWidth, screenHeight |-> screenHeight, step |-> step,
   currentX |-> currentX, currentY |-> currentY,
   bounds |-> bounds, shown |-> shown]

SetWin(w) ==
  /\ mainWindow' = w.mainWindow /\ isWindowVisible' = w.isWindowVisible
  /\ windowPosition' = w.windowPosition /\ windowSize' = w.windowSize
  /\ screenWidth' = w.screenWidth /\ screenHeight' = w.screenHeight
  /\ step' = w.step /\ currentX' = w.currentX /\ currentY' = w.currentY
  /\ bounds' = w.bounds /\ shown' = w.shown

\* Math.round of a value given in half pixels
Round2(h) == (h + 1) \div 2

\* the "move" listener of setupWindowListeners
onMoveNoPosition(w) ==
  [w EXCEPT !.currentX = 2 * w.bounds.x, !.currentY = 2 * w.bounds.y]
onMove(w) ==
  [w EXCEPT !.windowPosition = <<w.bounds.x, w.bounds.y>>,
            !.currentX = 2 * w.bounds.x, !.currentY = 2 * w.bounds.y]

\* the "resize" listener of setupWindowListeners
onResize(w) ==
  [w EXCEPT !.windowSize = <<w.bounds.width, w.bounds.height>>]

\* BrowserWindow.setPosition / setBounds, with the events they raise
setPosition(w, x, y) ==
  LET b == [w.bounds EXCEPT !.x = x, !.y = y]
      v == [w EXCEPT !.bounds = b]
  IN  IF b = w.bounds THEN w ELSE onMove(v)
setBounds(w, b) ==
  LET v  == [w EXCEPT !.bounds = b]
      v1 == IF b.x # w.bounds.x \/ b.y # w.bounds.y THEN onMove(v) ELSE v
  IN  IF b.width # w.bounds.width \/ b.height # w.bounds.height
      THEN onResize(v1) ELSE v1

\* WindowHelper.createWindow
createWindow(w, area) ==
  IF w.mainWindow THEN w
  ELSE LET b == [x |-> 0, y |-> 0, width |-> InitialWidth,
                 height |-> InitialHeight]
       IN  [w EXCEPT !.screenWidth = area.width,
                     !.screenHeight = area.height,
                     !.step = area.width \div 10,
                     !.mainWindow = TRUE, !.shown = TRUE,
                     !.bounds = b,
                     !.windowPosition = <<b.x, b.y>>,
                     !.windowSize = <<b.width, b.height>>,
                     !.currentX = 2 * b.x, !.currentY = 2 * b.y,
                     !.isWindowVisible = TRUE]

\* a "closed" listener that forgets the window and keeps what was stored
onClosedKeepsStored(w) ==
  [w EXCEPT !.mainWindow = FALSE, !.shown = FALSE, !.bounds = NoBounds]

\* the "closed" listener of setupWindowListeners
onClosed(w) ==
  [w EXCEPT !.mainWindow = FALSE, !.isWindowVisible = FALSE,
            !.windowPosition = <<>>, !.windowSize = <<>>,
            !.shown = FALSE, !.bounds = NoBounds]

\* Math.floor(workArea.width * (hasDebugged ? 0.75 : 0.4))
maxAllowedWidth(area, debugged) ==
  IF debugged THEN (area.width * 3) \div 4 ELSE (area.width * 2) \div 5

\* WindowHelper.setWindowDimensions; the renderer reports scrollWidth and
\* scrollHeight, which are integers, so Math.ceil(height) = height
setWindowDimensionsUnclamped(w, area, debugged, width, height) ==
  IF ~w.mainWindow THEN w
  ELSE LET newWidth  == width + WidthPadding
           newHeight == height
           maxX == area.width - newWidth
           newX == Min(Max(w.bounds.x, 0), maxX)
           v == setBounds(w, [x |-> newX, y |-> w.bounds.y,
                              width |-> newWidth, height |-> newHeight])
       IN  [v EXCEPT !.windowPosition = <<newX, w.bounds.y>>,
                     !.windowSize = <<newWidth, newHeight>>,
                     !.currentX = 2 * newX]
setWindowDimensionsKeepX(w, area, debugged, width, height) ==
  IF ~w.mainWindow THEN w
  ELSE LET newWidth  == Min(width + WidthPadding, maxAllowedWidth(area, debugged))
           newHeight == Max(height, MinHeight)
           v == setBounds(w, [x |-> w.bounds.x, y |-> w.bounds.y,
                              width |-> newWidth, height |-> newHeight])
       IN  [v EXCEPT !.windowPosition = <<w.bounds.x, w.bounds.y>>,
                     !.windowSize = <<newWidth, newHeight>>,
                     !.currentX = 2 * w.bounds.x]
setWindowDimensions(w, area, debugged, width, height) ==
  IF ~w.mainWindow THEN w
  ELSE LET newWidth  == Min(width + WidthPadding, maxAllowedWidth(area, debugged))
           newHeight == Max(height, MinHeight)
           maxX == area.width - newWidth
           newX == Min(Max(w.bounds.x, 0), maxX)
           v == setBounds(w, [x |-> newX, y |-> w.bounds.y,
                              width |-> newWidth, height |-> newHeight])
       IN  [v EXCEPT !.windowPosition = <<newX, w.bounds.y>>,
                     !.windowSize = <<newWidth, newHeight>>,
                     !.currentX = 2 * newX]

\* this.windowSize?.width || 0
sizeWidth(w) == IF w.windowSize = <<>> THEN 0 ELSE w.windowSize[1]

\* WindowHelper.moveWindowRight
moveWindowRight(w) ==
  IF ~w.mainWindow THEN w
  ELSE LET x == Min(2 * w.screenWidth - sizeWidth(w), w.currentX + 2 * w.step)
       IN  setPosition([w EXCEPT !.currentX = x], Round2(x), Round2(w.currentY))

\* WindowHelper.moveWindowLeft
moveWindowLeft(w) ==
  IF ~w.mainWindow THEN w
  ELSE LET x == Max(-sizeWidth(w), w.currentX - 2 * w.step)
       IN  setPosition([w EXCEPT !.currentX = x], Round2(x), Round2(w.currentY))

\* this.windowSize?.height || 0
sizeHeight(w) == IF w.windowSize = <<>> THEN 0 ELSE w.windowSize[2]

\* WindowHelper.moveWindowDown: the step is the one createWindow derived from
\* the screen width
moveWindowDown(w) ==
  IF ~w.mainWindow THEN w
  ELSE LET y == Min(2 * w.screenHeight - sizeHeight(w), w.currentY + 2 * w.step)
       IN  setPosition([w EXCEPT !.currentY = y], Round2(w.currentX), Round2(y))

\* WindowHelper.moveWindowUp
moveWindowUp(w) ==
  IF ~w.mainWindow THEN w
  ELSE LET y == Max(-sizeHeight(w), w.currentY - 2 * w.step)
       IN  setPosition([w EXCEPT !.currentY = y], Round2(w.currentX), Round2(y))

\* WindowHelper.hideMainWindow
hideMainWindow(w) ==
  IF ~w.mainWindow THEN w
  ELSE [w EXCEPT !.windowPosition = <<w.bounds.x, w.bounds.y>>,
                 !.windowSize = <<w.bounds.width, w.bounds.height>>,
                 !.shown = FALSE, !.isWindowVisible = FALSE]

\* a showMainWindow that shows the window and leaves the flag alone
showMainWindowNoFlag(w) ==
  IF ~w.mainWindow THEN w
  ELSE LET v == IF w.windowPosition # <<>> /\ w.windowSize # <<>>
                THEN setBounds(w, [x |-> w.windowPosition[1],
                                   y |-> w.windowPosition[2],
                                   width |-> w.windowSize[1],
                                   height |-> w.windowSize[2]])
                ELSE w
       IN  [v EXCEPT !.shown = TRUE]

\* WindowHelper.showMainWindow
showMainWindow(w) ==
  IF ~w.mainWindow THEN w
  ELSE LET v == IF w.windowPosition # <<>> /\ w.windowSize # <<>>
                THEN setBounds(w, [x |-> w.windowPosition[1],
                                   y |-> w.windowPosition[2],
                                   width |-> w.windowSize[1],
                                   height |-> w.windowSize[2]])
                ELSE w
       IN  [v EXCEPT !.shown = TRUE, !.isWindowVisible = TRUE]

\* WindowHelper.toggleMainWindow
toggleMainWindow(w) ==
  IF w.isWindowVisible THEN hideMainWindow(w) ELSE showMainWindow(w)

\* process.platform
Platforms == {"darwin", "win32"}

\* the CommandOrControl+B handler after toggleMainWindow: whether it
\* re-asserts always-on-top (setAlwaysOnTop(true, "normal"), then
\* "floating"), given the controller as the toggle left it
forcesToFront(w, platform) ==
  w.mainWindow /\ ~w.isWindowVisible /\ platform = "darwin"

\* ------------------------------------------------------------ the machine
mainVars == <<view, mode, textQuery, problemInfo, hasDebugged,
              screenshotQueue, extraScreenshotQueue, shView,
              current, nextId, calls, aborted, outbox, emitted, resetIds,
              seenAtReset>>
uiVars   == <<listeners, appEffect, uiHandled>>

\* free-text queries typed into the textarea: blank, text between blanks
Queries == {<<" ", " ">>, <<" ", "q", " ">>}

\* responses the coordinator is driven with: success, malformed content,
\* out of credits, server error
MainResponses ==
  {r \in Responses(1) :
     /\ r.status \in {200, HttpTooManyRequests, 500}
     /\ r.body = ""
     /\ (r.status = 200 => r.content \in {<<"1">>, <<"a">>})}

NoSnapshot ==
  [inflight |-> Null, queued |-> 0, problemInfo |-> Null, view |-> "queue"]
\* the last operation: the attempt a solve started or a reset cancelled; of
\* a completed call its kind, the status of the response, how the attempt
\* had been cancelled ("" when it had not) and the notification sent
Op(op, id, kind, status, dropped, sent) ==
  [op |-> op, id |-> id, kind |-> kind, status |-> status,
   dropped |-> dropped, sent |-> sent]

NoApiIn  == [kind |-> "none", hasKey |-> FALSE,
             resp |-> [status |-> 0, body |-> "", content |-> <<>>]]
NoApiOut == Thrown(<<>>, "", 0)

\* operations no property needs to tell apart
OtherOp == Op("other", Null, "", 0, "", "")

InitProgram ==
  /\ view = "queue" /\ mode = "screenshot" /\ textQuery = <<>>
  /\ problemInfo = Null /\ hasDebugged = FALSE /\ shortcutsRegistered = FALSE
  /\ screenshotQueue = <<>> /\ extraScreenshotQueue = <<>>
  /\ shView = "queue" /\ nextShot = 1 /\ files = {}
  /\ capPhase = "none"
  /\ current = Null /\ nextId = 1 /\ calls = {} /\ aborted = {}
  /\ mainWindow = FALSE /\ isWindowVisible = FALSE
  /\ windowPosition = <<>> /\ windowSize = <<>>
  /\ screenWidth = 0 /\ screenHeight = 0 /\ step = 0
  /\ currentX = 0 /\ currentY = 0
  /\ bounds = NoBounds /\ shown = FALSE
  /\ outbox = <<>> /\ listeners = {} /\ appEffect = "unmounted"
  /\ emitted = <<>> /\ uiHandled = <<>> /\ resetIds = {}
  /\ seenAtReset = NoSnapshot
  /\ lastOp = Op("init", Null, "", 0, "", "") /\ lastReq = <<0, 0>>
  /\ apiOut = NoApiOut
  /\ ipcOn = {} /\ handles = {} /\ invoked = {} /\ nextSub = 1
  /\ uiMode = "screenshot" /\ uiView = "queue"
  /\ cache = {} /\ session = FALSE /\ sbSession = FALSE
  /\ isAuthenticated = FALSE /\ load = "none" /\ loadValue = FALSE
  /\ sub = [has |-> FALSE, by |-> "none", current |-> FALSE, stale |-> FALSE]
  /\ signingOut = FALSE /\ signedOut = FALSE

Init ==
  /\ InitProgram
  /\ workArea = [width |-> 1366, height |-> 768]
  /\ apiIn = NoApiIn
  /\ stored = FALSE

\* app.whenReady: AppState.createWindow, then registerGlobalShortcuts
WhenReady ==
  /\ ~shortcutsRegistered
  /\ SetWin(createWindow(WinState, workArea))
  /\ shortcutsRegistered' = TRUE
  /\ lastOp' = OtherOp
  /\ UNCHANGED <<mainVars, uiVars, nextShot, files, capPhase, workArea, lastReq, apiVars, extVars>>

\* app.on("activate"): a window is created when there is none
Activate ==
  /\ shortcutsRegistered
  /\ SetWin(IF ~mainWindow THEN createWindow(WinState, workArea) ELSE WinState)
  /\ lastOp' = OtherOp
  /\ UNCHANGED <<mainVars, uiVars, nextShot, files, capPhase, workArea, lastReq, apiVars, extVars,
                 shortcutsRegistered>>

\* the window is closed: the renderer and the notifications still on their
\* way to it are gone; emitted and uiHandled start afresh with every renderer
WindowClosed ==
  /\ mainWindow
  /\ SetWin(onClosed(WinState))
  /\ outbox' = <<>> /\ listeners' = {} /\ appEffect' = "unmounted"
  /\ emitted' = <<>> /\ uiHandled' = <<>>
  /\ lastOp' = OtherOp
  /\ UNCHANGED <<shortcutsRegistered, view, mode, textQuery, problemInfo,
                 hasDebugged, screenshotQueue, extraScreenshotQueue, shView,
                 current, nextId, calls, aborted, resetIds, seenAtReset,
                 nextShot, files, capPhase, workArea, lastReq, apiVars, extVars>>

\* the renderer has loaded: App's effect (App.tsx) subscribes
AppMount ==
  /\ mainWindow /\ appEffect = "unmounted"
  /\ listeners' = listeners \cup Registered(AppSubscriptions)
                            \cup Registered(QueueModeSubscriptions)
  /\ uiMode' = "screenshot" /\ uiView' = "queue"
  /\ appEffect' = IF FirstMissing(AppSubscriptions) <= Len(AppSubscriptions)
                  THEN "threw" ELSE "subscribed"
  /\ emitted' = <<>> /\ uiHandled' = <<>>
  /\ lastOp' = OtherOp
  /\ UNCHANGED <<shortcutsRegistered, view, mode, textQuery, problemInfo,
                 hasDebugged, screenshotQueue, extraScreenshotQueue, shView,
                 current, nextId, calls, aborted, outbox, resetIds, seenAtReset,
                 winVars, nextShot, files, capPhase, lastReq, apiVars, bridgeVars, authVars>>

\* shortcut CommandOrControl+H
Capture ==
  /\ shortcutsRegistered
  /\ nextShot <= MaxShots
  /\ Len(outbox) < MaxOutbox
  /\ LET s == captureHandler(MainState, nextShot)
     IN  /\ SetMain(s)
         /\ lastOp' = OtherOp
  /\ nextShot' = IF mainWindow THEN nextShot + 1 ELSE nextShot
  /\ files' = IF mainWindow THEN files \cup {nextShot} ELSE files
  /\ SetWin(showMainWindow(hideMainWindow(WinState)))
  /\ UNCHANGED <<shortcutsRegistered, uiVars, workArea, lastReq,
                 apiVars, extVars, capPhase>>

\* AppState.setTextQuery, for the textarea that Queue shows in text mode
SetTextQuery(q) ==
  /\ mainWindow /\ mode = "text"
  /\ textQuery' = q
  /\ lastOp' = OtherOp
  /\ UNCHANGED <<shortcutsRegistered, view, mode, problemInfo, hasDebugged,
                 screenshotQueue, extraScreenshotQueue, shView,
                 current, nextId, calls, aborted, outbox, emitted, resetIds,
                 seenAtReset,
                 winVars, uiVars, nextShot, files, capPhase, lastReq, apiVars, extVars>>

\* shortcut CommandOrControl+Shift+T
ToggleMode ==
  /\ shortcutsRegistered
  /\ Len(outbox) < MaxOutbox
  /\ LET s == toggleModeHandler(MainState)
     IN  /\ SetMain(s)
         /\ lastOp' = OtherOp
  /\ UNCHANGED <<shortcutsRegistered, winVars, uiVars, nextShot, files, capPhase, lastReq, apiVars, extVars>>

\* shortcut CommandOrControl+Enter; emitted and uiHandled follow the latest
\* attempt only
Solve ==
  /\ shortcutsRegistered
  /\ nextId <= MaxAttempts
  /\ Len(outbox) < MaxOutbox
  /\ LET s == solveHandler(MainState)
         started == s.nextId # nextId
     IN  /\ SetMain(IF started THEN [s EXCEPT !.emitted = <<>>] ELSE s)
         /\ uiHandled' = IF started THEN <<>> ELSE uiHandled
         /\ lastOp' = Op("solve", IF started THEN nextId ELSE Null, "", 0, "", "")
  /\ UNCHANGED <<shortcutsRegistered, winVars, listeners, appEffect,
                 nextShot, files, capPhase, lastReq, apiVars, extVars>>

\* shortcut CommandOrControl+R
Reset ==
  /\ shortcutsRegistered
  /\ Len(outbox) < MaxOutbox
  /\ LET s == resetHandler(MainState)
     IN  /\ SetMain([s EXCEPT !.resetIds = @ \cup ({current} \ {Null})])
         /\ lastOp' = Op("reset", current, "", 0, "", "")
  /\ UNCHANGED <<shortcutsRegistered, winVars, uiVars, nextShot, files, capPhase, lastReq, apiVars, extVars>>

\* an outstanding external call completes with a response
Respond(c, resp) ==
  /\ Len(outbox) < MaxOutbox
  /\ LET s == onResult(MainState, c, ApiCall(c.kind, TRUE, resp))
     IN  /\ SetMain([s EXCEPT !.resetIds = @ \ {c.id}])
         /\ lastOp' = Op("respond", Null, c.kind, resp.status,
                         IF c.id \in resetIds THEN "reset"
                         ELSE IF c.id \in aborted THEN "restart" ELSE "",
                         IF Len(s.outbox) > Len(outbox)
                         THEN s.outbox[Len(s.outbox)].ch ELSE "")
  /\ UNCHANGED <<shortcutsRegistered, winVars, uiVars, nextShot, files, capPhase, lastReq, apiVars, extVars>>

\* the subscriptions of Queue's second effect, made when Queue mounts and
\* undone by the effect's cleanup when it unmounts
QueueSubscriptions ==
  <<"onScreenshotTaken", "onResetView", "onSolutionError",
    "onProcessingNoScreenshots">>

\* Queue is rendered only while App's view is "queue"
QueueListens(ch) ==
  /\ appEffect # "unmounted" /\ uiView = "queue"
  /\ \E l \in Registered(QueueSubscriptions) : l.ch = ch

\* App's view after the listeners of a channel have run: Queue's
\* onSolutionError handler and App's onResetView and onUnauthorized handlers
\* call setView("queue"), App's onProcessingStart handler setView("solutions")
viewAfter(ch) ==
  IF \/ ch = PROCESSING_EVENTS.INITIAL_SOLUTION_ERROR /\ QueueListens(ch)
     \/ \E l \in listeners :
          l.ch = ch /\ l.api \in {"onResetView", "onUnauthorized"}
  THEN "queue"
  ELSE IF \E l \in listeners : l.ch = ch /\ l.api = "onProcessingStart"
  THEN "solutions"
  ELSE uiView

\* queries the UI caches results under
CacheKeys == {"screenshots", "solution", "problem_statement", "thoughts",
              "time_complexity", "space_complexity"}

\* AuthProvider's onAuthStateChange listener: with a session it starts a
\* subscription check and awaits it, without one it clears hasSubscription;
\* a check still awaited belongs from now on to an earlier auth change
onAuthStateChange(c, s) ==
  IF s THEN [c EXCEPT !.stale = c.stale \/ c.current, !.current = TRUE]
  ELSE [c EXCEPT !.has = FALSE, !.by = "none",
                 !.stale = c.stale \/ c.current, !.current = FALSE]

\* supabase.auth.onAuthStateChange listeners: AuthService keeps the session
\* and stores or clears the persisted one, AuthProvider sets isAuthenticated
authStateChanged(s) ==
  /\ session' = s /\ stored' = s /\ isAuthenticated' = s
  /\ sub' = onAuthStateChange(sub, s)

\* supabase.auth.signOut(): the client drops its session and tells the
\* listeners, which exist once AuthService has been constructed
supabaseSignOut ==
  /\ sbSession' = FALSE
  /\ IF load # "none" THEN authStateChanged(FALSE)
     ELSE UNCHANGED <<session, stored, isAuthenticated, sub>>

\* App's onUnauthorized handler: removeQueries for every key, then sign out
onUnauthorized ==
  /\ cache' = cache \ CacheKeys
  /\ supabaseSignOut

\* the renderer takes the next notification off the channel and runs the
\* listeners registered for it
Deliver ==
  /\ outbox # <<>>
  /\ LET m == Head(outbox)
     IN  /\ outbox' = Tail(outbox)
         /\ uiHandled' =
              IF m.ch \in ProgressChannels /\ \E l \in listeners : l.ch = m.ch
              THEN Append(uiHandled, [ch |-> m.ch, id |-> m.id])
              ELSE uiHandled
         /\ uiMode' =
              IF m.ch = "mode-changed" /\ \E l \in listeners : l.ch = m.ch
              THEN m.arg ELSE uiMode
         /\ uiView' = viewAfter(m.ch)
         /\ IF /\ m.ch = PROCESSING_EVENTS.UNAUTHORIZED
               /\ \E l \in listeners : l.ch = m.ch
            THEN onUnauthorized
            ELSE UNCHANGED <<cache, stored, session, sbSession, isAuthenticated, sub>>
         /\ lastOp' = OtherOp
  /\ UNCHANGED <<shortcutsRegistered, view, mode, textQuery, problemInfo,
                 hasDebugged,
                 screenshotQueue, extraScreenshotQueue, shView,
                 current, nextId, calls, aborted, emitted, resetIds, seenAtReset,
                 winVars, listeners, appEffect, nextShot, files, capPhase, lastReq, apiVars,
                 bridgeVars, load, loadValue, signingOut, signedOut>>

Next ==
  \/ WhenReady
  \/ Activate
  \/ WindowClosed
  \/ AppMount
  \/ Capture
  \/ \E q \in Queries : SetTextQuery(q)
  \/ ToggleMode
  \/ Solve
  \/ Reset
  \/ \E c \in calls, resp \in MainResponses : Respond(c, resp)
  \/ Deliver

Spec == Init /\ [][Next]_vars

\* ------------------------------------------- Window Controller on its own
\* IPC update-content-dimensions: AppState.setWindowDimensions
SetWindowDimensions(width, height) ==
  /\ SetWin(setWindowDimensions(WinState, workArea, hasDebugged, width, height))
  /\ lastOp' = Op("setWindowDimensions", Null, "", 0, "", "")
  /\ lastReq' = <<width, height>>
  /\ UNCHANGED <<shortcutsRegistered, mainVars, uiVars, nextShot, files, capPhase, workArea, apiVars, extVars>>

\* AppState.setHasDebugged
SetHasDebugged(value) ==
  /\ hasDebugged' = value
  /\ lastOp' = OtherOp
  /\ UNCHANGED <<shortcutsRegistered, view, mode, textQuery, problemInfo,
                 screenshotQueue, extraScreenshotQueue, shView,
                 current, nextId, calls, aborted, outbox, emitted, resetIds,
                 seenAtReset,
                 winVars, uiVars, nextShot, files, capPhase, lastReq, apiVars, extVars>>

\* shortcut CommandOrControl+Right
MoveWindowRight ==
  /\ shortcutsRegistered
  /\ SetWin(moveWindowRight(WinState))
  /\ lastOp' = Op("moveWindowRight", Null, "", 0, "", "")
  /\ UNCHANGED <<shortcutsRegistered, mainVars, uiVars, nextShot, files, capPhase, workArea, lastReq, apiVars, extVars>>

\* shortcut CommandOrControl+Left
MoveWindowLeft ==
  /\ shortcutsRegistered
  /\ SetWin(moveWindowLeft(WinState))
  /\ lastOp' = Op("moveWindowLeft", Null, "", 0, "", "")
  /\ UNCHANGED <<shortcutsRegistered, mainVars, uiVars, nextShot, files, capPhase, workArea, lastReq, apiVars, extVars>>

NextWin ==
  \/ WhenReady
  \/ Activate
  \/ WindowClosed
  \/ \E width \in ReqWidths, height \in ReqHeights :
       SetWindowDimensions(width, height)
  \/ \E value \in BOOLEAN : SetHasDebugged(value)
  \/ MoveWindowRight
  \/ MoveWindowLeft

InitWin ==
  InitProgram /\ workArea \in WorkAreas /\ apiIn = NoApiIn /\ stored = FALSE

SpecWin == InitWin /\ [][NextWin]_vars

\* ------------------------------------- Window Controller: moves, hide, show
\* shortcut CommandOrControl+Down
MoveWindowDown ==
  /\ shortcutsRegistered
  /\ SetWin(moveWindowDown(WinState))
  /\ lastOp' = Op("moveWindowDown", Null, "", 0, "", "")
  /\ UNCHANGED <<shortcutsRegistered, mainVars, uiVars, nextShot, files, capPhase, workArea, lastReq, apiVars, extVars>>

\* shortcut CommandOrControl+Up
MoveWindowUp ==
  /\ shortcutsRegistered
  /\ SetWin(moveWindowUp(WinState))
  /\ lastOp' = Op("moveWindowUp", Null, "", 0, "", "")
  /\ UNCHANGED <<shortcutsRegistered, mainVars, uiVars, nextShot, files, capPhase, workArea, lastReq, apiVars, extVars>>

\* shortcut CommandOrControl+B
ToggleMainWindow ==
  /\ shortcutsRegistered
  /\ SetWin(toggleMainWindow(WinState))
  /\ \E platform \in Platforms :
       lastOp' = Op("toggleMainWindow", Null,
                    IF forcesToFront(toggleMainWindow(WinState), platform)
                    THEN "front" ELSE "",
                    0, platform, "")
  /\ UNCHANGED <<shortcutsRegistered, mainVars, uiVars, nextShot, files, capPhase, workArea, lastReq, apiVars, extVars>>

\* sizes the renderer reports while the window is moved about: small and
\* odd widths, heights at and above the minimum
MoveWidths  == {200, 515}
MoveHeights == {0, 101}

NextMove ==
  \/ WhenReady
  \/ Activate
  \/ WindowClosed
  \/ \E width \in MoveWidths, height \in MoveHeights :
       SetWindowDimensions(width, height)
  \/ MoveWindowRight
  \/ MoveWindowLeft
  \/ MoveWindowDown
  \/ MoveWindowUp
  \/ ToggleMainWindow

SpecMove == InitWin /\ [][NextMove]_vars

\* ------------------------------------------------ the bridge on its own
\* the UI subscribes through one of the exposed functions
Subscribe(api) ==
  /\ nextSub <= MaxSubs
  /\ ipcOn' = subscribe(ipcOn, api, nextSub)
  /\ handles' = handles \cup {[api |-> api, fn |-> nextSub]}
  /\ nextSub' = nextSub + 1
  /\ invoked' = {}
  /\ lastOp' = Op("subscribe", Null, "", 0, "", Exposed[api])
  /\ UNCHANGED <<shortcutsRegistered, mainVars, winVars, uiVars, nextShot, files, capPhase,
                 lastReq, apiVars, uiMode, uiView, authVars>>

\* the UI calls an unsubscribe handle (effect cleanup)
Unsubscribe(h) ==
  /\ ipcOn' = unsubscribe(ipcOn, h.api, h.fn)
  /\ handles' = handles \ {h}
  /\ invoked' = {}
  /\ lastOp' = Op("unsubscribe", Null, "", 0, "", Exposed[h.api])
  /\ UNCHANGED <<shortcutsRegistered, mainVars, winVars, uiVars, nextShot, files, capPhase,
                 lastReq, apiVars, nextSub, uiMode, uiView, authVars>>

\* a notification arrives on a channel: every registered listener of the
\* channel runs
Notify(ch) ==
  /\ invoked' = {l.fn : l \in {m \in ipcOn : m.ch = ch}}
  /\ lastOp' = Op("notify", Null, "", 0, "", ch)
  /\ UNCHANGED <<shortcutsRegistered, mainVars, winVars, uiVars, nextShot, files, capPhase,
                 lastReq, apiVars, ipcOn, handles, nextSub, uiMode, uiView,
                 authVars>>

NextBridge ==
  \/ \E api \in DOMAIN Exposed : Subscribe(api)
  \/ \E h \in handles : Unsubscribe(h)
  \/ \E api \in DOMAIN Exposed : Notify(Exposed[api])

SpecBridge == Init /\ [][NextBridge]_vars

\* ------------------------------------------- failures of the window calls
\* where a call inside createWindow's try block throws: the BrowserWindow
\* constructor, or a call made on the new window before its bounds are read
FailStages == {"construct", "configure"}

\* WindowHelper.createWindow when a call in its try block throws: what was
\* assigned before the throw stays, the catch block logs
createWindowFailing(w, area, stage) ==
  LET pre == [w EXCEPT !.screenWidth = area.width,
                       !.screenHeight = area.height,
                       !.step = area.width \div 10,
                       !.currentX = 0]
  IN  IF stage = "construct" THEN pre
      ELSE [pre EXCEPT !.mainWindow = TRUE, !.shown = TRUE,
                       !.bounds = [x |-> 0, y |-> 0, width |-> InitialWidth,
                                   height |-> InitialHeight]]

\* a window object the controller holds without listeners or stored
\* position; what is done with it afterwards is outside this model
HalfBuilt == mainWindow /\ windowPosition = <<>>

\* createWindow fails, called from the whenReady handler (which goes on to
\* register the shortcuts) or from the activate handler
CreateWindowFails(stage) ==
  /\ ~mainWindow
  /\ SetWin(createWindowFailing(WinState, workArea, stage))
  /\ shortcutsRegistered' = TRUE
  /\ lastOp' = Op("createWindowFails", Null, "logged", 0, "", "")
  /\ UNCHANGED <<mainVars, uiVars, nextShot, files, capPhase, workArea, lastReq, apiVars,
                 extVars>>

\* setWindowDimensions when setBounds throws: there is no try block, the
\* exception reaches the caller and the fields are not updated
SetWindowDimensionsFails(width, height) ==
  /\ mainWindow
  /\ lastOp' = Op("setWindowDimensionsFails", Null, "thrown", 0, "", "")
  /\ lastReq' = <<width, height>>
  /\ UNCHANGED <<shortcutsRegistered, mainVars, winVars, uiVars, nextShot,
                 files, capPhase, apiVars, extVars>>

NextFail ==
  \/ \E stage \in FailStages : CreateWindowFails(stage)
  \/ ~HalfBuilt /\ WhenReady
  \/ ~HalfBuilt /\ Activate
  \/ ~HalfBuilt /\ WindowClosed
  \/ ~HalfBuilt /\ \E width \in MoveWidths, height \in MoveHeights :
                     SetWindowDimensions(width, height)
  \/ ~HalfBuilt /\ \E width \in MoveWidths, height \in MoveHeights :
                     SetWindowDimensionsFails(width, height)
  \/ ~HalfBuilt /\ MoveWindowRight
  \/ ~HalfBuilt /\ MoveWindowLeft

SpecFail == InitWin /\ [][NextFail]_vars

\* ------------------------------------------------- a capture, step by step
\* AppState.takeScreenshot awaits ScreenshotHelper.takeScreenshot, which is
\* given hideMainWindow and showMainWindow: it hides the window, takes the
\* image, shows the window; other handlers run between these steps.
\* shortcut CommandOrControl+H up to the hiding of the window
CaptureHide ==
  /\ shortcutsRegistered /\ mainWindow
  /\ capPhase = "none" /\ nextShot <= MaxShots
  /\ SetWin(hideMainWindow(WinState))
  /\ capPhase' = "hidden"
  /\ lastOp' = Op("captureHide", Null, "", 0, "", "")
  /\ UNCHANGED <<shortcutsRegistered, mainVars, uiVars, nextShot, files,
                 workArea, lastReq, apiVars, extVars>>

\* the image of the screen is taken and queued; lastOp keeps whether the
\* window was on the screen at that moment
CaptureImage ==
  /\ capPhase = "hidden"
  /\ SetMain(addScreenshot(MainState, nextShot))
  /\ nextShot' = nextShot + 1
  /\ files' = files \cup {nextShot}
  /\ capPhase' = "taken"
  /\ lastOp' = Op("captureImage", nextShot,
                  IF shown THEN "visible" ELSE "hidden", 0, "", "")
  /\ UNCHANGED <<shortcutsRegistered, winVars, uiVars, lastReq, apiVars,
                 extVars>>

\* the window is shown again, takeScreenshot returns and the handler sends
\* screenshot-taken to the window it found when it started
CaptureShow ==
  /\ capPhase = "taken"
  /\ Len(outbox) < MaxOutbox
  /\ SetWin(showMainWindow(WinState))
  /\ SetMain(sendIfWindow(MainState, "screenshot-taken", Null))
  /\ capPhase' = "none"
  /\ lastOp' = Op("captureShow", Null, "", 0, "", "")
  /\ UNCHANGED <<shortcutsRegistered, uiVars, nextShot, files, workArea,
                 lastReq, apiVars, extVars>>

NextCapture ==
  \/ WhenReady
  \/ Activate
  \/ WindowClosed
  \/ CaptureHide
  \/ CaptureImage
  \/ CaptureShow
  \/ ToggleMainWindow
  \/ MoveWindowRight
  \/ MoveWindowLeft
  \/ Deliver

SpecCapture == Init /\ [][NextCapture]_vars

\* ------------------------------------------------- deleting a screenshot
\* paths a delete request can name: every capture number
Paths == 1..MaxShots

Without(q, p) == SelectSeq(q, LAMBDA x : x # p)

\* a delete that removes the file and keeps the records
deleteScreenshotKeepRecord(s, fs, p) ==
  IF p \in fs
  THEN [state |-> s, files |-> fs \ {p}, success |-> TRUE]
  ELSE [state |-> s, files |-> fs, success |-> FALSE]

\* ScreenshotHelper.deleteScreenshot, reached through
\* AppState.deleteScreenshot: removes the file and its record; a path with
\* no file is a failure without side effects
deleteScreenshot(s, fs, p) ==
  IF p \in fs
  THEN [state |-> [s EXCEPT !.screenshotQueue = Without(@, p),
                            !.extraScreenshotQueue = Without(@, p)],
        files |-> fs \ {p}, success |-> TRUE]
  ELSE [state |-> s, files |-> fs, success |-> FALSE]

\* Queue.handleDeleteScreenshot -> electronAPI.deleteScreenshot(path) ->
\* "delete-screenshot" -> AppState.deleteScreenshot(path)
DeleteScreenshot(p) ==
  /\ mainWindow
  /\ LET r == deleteScreenshot(MainState, files, p)
     IN  /\ SetMain(r.state)
         /\ files' = r.files
         /\ lastOp' = Op("deleteScreenshot", p, "", 0, "",
                         IF r.success THEN "success" ELSE "failure")
  /\ UNCHANGED <<shortcutsRegistered, winVars, uiVars, nextShot, lastReq,
                 apiVars, extVars, capPhase>>

NextShots ==
  \/ WhenReady
  \/ Capture
  \/ Solve
  \/ \E c \in calls, resp \in MainResponses : Respond(c, resp)
  \/ Reset
  \/ Deliver
  \/ \E p \in Paths : DeleteScreenshot(p)

SpecShots == Init /\ [][NextShots]_vars

\* ------------------------------------------------- sign-in and sign-out
\* AuthProvider renders: AuthService.getInstance() constructs the service,
\* which asks for the saved session; the provider's effect reads getSession()
Construct ==
  /\ mainWindow /\ load = "none"
  /\ load' = "requested"
  /\ isAuthenticated' = session
  /\ lastOp' = OtherOp
  /\ UNCHANGED <<coreVars, bridgeVars, uiMode, uiView, cache, stored, session,
                 sbSession, loadValue, signingOut, signedOut, sub>>

\* the background process answers get-session from the store
LoadRead ==
  /\ load = "requested"
  /\ load' = "replied" /\ loadValue' = stored
  /\ lastOp' = OtherOp
  /\ UNCHANGED <<coreVars, bridgeVars, uiMode, uiView, cache, stored, session,
                 sbSession, isAuthenticated, sub, signingOut, signedOut>>

\* the then-callback of the constructor: with a saved session it calls
\* supabase.auth.setSession, which the server accepts or not, and keeps the
\* saved session
LoadDone(accepted) ==
  /\ load = "replied"
  /\ load' = "done"
  /\ IF loadValue
     THEN IF accepted
          THEN /\ sbSession' = TRUE /\ authStateChanged(TRUE)
               /\ signedOut' = FALSE
          ELSE /\ session' = TRUE
               /\ UNCHANGED <<sbSession, stored, isAuthenticated, sub, signedOut>>
     ELSE UNCHANGED <<sbSession, session, stored, isAuthenticated, sub, signedOut>>
  /\ lastOp' = Op("loadDone", Null, "", 0, "", "")
  /\ UNCHANGED <<coreVars, bridgeVars, uiMode, uiView, cache, loadValue, signingOut>>

\* AuthService.signInWithGoogle returns with a session
SignIn ==
  /\ load # "none" /\ ~sbSession /\ ~signingOut
  /\ sbSession' = TRUE /\ authStateChanged(TRUE)
  /\ signedOut' = FALSE
  /\ lastOp' = OtherOp
  /\ UNCHANGED <<coreVars, bridgeVars, uiMode, uiView, cache, load, loadValue,
                 signingOut>>

\* AuthService.signOut up to its await: supabase.auth.signOut()
SignOutStart ==
  /\ load # "none" /\ ~signingOut
  /\ supabaseSignOut
  /\ signingOut' = TRUE
  /\ lastOp' = OtherOp
  /\ UNCHANGED <<coreVars, bridgeVars, uiMode, uiView, cache, load, loadValue,
                 signedOut>>

\* AuthService.signOut after its await: clearSession(), this.session = null
SignOutFinish ==
  /\ signingOut
  /\ signingOut' = FALSE
  /\ stored' = FALSE /\ session' = FALSE
  /\ signedOut' = TRUE
  /\ lastOp' = Op("signOut", Null, "", 0, "", "")
  /\ UNCHANGED <<coreVars, bridgeVars, uiMode, uiView, cache, sbSession,
                 isAuthenticated, sub, load, loadValue>>

\* an awaited auth.checkSubscription() returns and the code after the await
\* runs: setHasSubscription(hasActiveSub)
CheckReturns(which, hasActiveSub) ==
  /\ sub[which]
  /\ sub' = [sub EXCEPT !.has = hasActiveSub, !.by = which, ![which] = FALSE]
  /\ lastOp' = Op("checkReturns", Null, which, 0, "", "")
  /\ UNCHANGED <<coreVars, bridgeVars, uiMode, uiView, cache, stored, session,
                 sbSession, isAuthenticated, load, loadValue, signingOut,
                 signedOut>>

\* the UI caches a result (queryClient.setQueryData)
SetQueryData(key) ==
  /\ appEffect # "unmounted"
  /\ cache' = cache \cup {key}
  /\ lastOp' = OtherOp
  /\ UNCHANGED <<coreVars, bridgeVars, uiMode, uiView, stored, session, sbSession,
                 isAuthenticated, sub, load, loadValue, signingOut, signedOut>>

\* the background process reports that the API rejected the credentials
SendUnauthorized ==
  /\ mainWindow /\ Len(outbox) < MaxOutbox
  /\ SetMain(send(MainState, PROCESSING_EVENTS.UNAUTHORIZED, Null))
  /\ lastOp' = OtherOp
  /\ UNCHANGED <<shortcutsRegistered, winVars, uiVars, nextShot, files, capPhase, lastReq,
                 apiVars, extVars>>

NextAuth ==
  \/ WhenReady
  \/ AppMount
  \/ Construct
  \/ LoadRead
  \/ \E accepted \in BOOLEAN : LoadDone(accepted)
  \/ SignIn
  \/ SignOutStart
  \/ SignOutFinish
  \/ \E which \in {"current", "stale"}, hasActiveSub \in BOOLEAN :
       CheckReturns(which, hasActiveSub)
  \/ \E key \in CacheKeys : SetQueryData(key)
  \/ SendUnauthorized
  \/ Deliver

InitAuth ==
  /\ InitProgram
  /\ workArea = [width |-> 1366, height |-> 768]
  /\ apiIn = NoApiIn
  /\ stored \in BOOLEAN

SpecAuth == InitAuth /\ [][NextAuth]_vars

\* ---------------------------------------------- one external call at a time
\* the call is made with the key and the response drawn at the start
ApiInputs ==
  {[kind |-> kind, hasKey |-> hasKey, resp |-> resp] :
     kind \in Kinds, hasKey \in BOOLEAN, resp \in Responses(MaxContent)}

CallApi ==
  /\ lastOp.op = "init"
  /\ apiOut' = ApiCall(apiIn.kind, apiIn.hasKey, apiIn.resp)
  /\ lastOp' = Op("api", Null, apiIn.kind, apiIn.resp.status, "", "")
  /\ UNCHANGED <<shortcutsRegistered, mainVars, winVars, uiVars, nextShot, files, capPhase,
                 lastReq, apiIn, extVars>>

NextApi == CallApi

InitApi ==
  /\ InitProgram
  /\ workArea = [width |-> 1366, height |-> 768]
  /\ apiIn \in ApiInputs
  /\ stored = FALSE

SpecApi == InitApi /\ [][NextApi]_vars

\* ================================================================= claims
Last(s) == s[Len(s)]

\* outstanding external calls whose attempt has not been cancelled
Live == {c \in calls : c.id \notin aborted}

\* C1: at most one attempt is active at any time: every outstanding call
\* that has not been cancelled belongs to the in-flight handle, and a new
\* attempt becomes active only after the previous one was cancelled.
C1_SingleFlight ==
  /\ Cardinality({c.id : c \in Live}) <= 1
  /\ \A c \in Live : c.id = current
  /\ current # Null => \E c \in Live : c.id = current

\* a second attempt was started while the call of the first was outstanding
C1_Witness ==
  /\ lastOp.op = "solve" /\ lastOp.id = current /\ current # Null
  /\ \E c \in calls : c.id \in aborted /\ c.id \notin resetIds

\* C2: the completion of a call whose attempt had been cancelled, by the
\* reset shortcut or by the start of another attempt, sends no notification
\* to the UI, whatever the call resolved to.
C2_NoResultAfterCancel ==
  (lastOp.op = "respond" /\ lastOp.dropped # "") => lastOp.sent = ""

\* the call of an attempt cancelled by the reset shortcut has succeeded after
\* the cancel
C2_Witness ==
  /\ lastOp.op = "respond" /\ lastOp.dropped = "reset"
  /\ lastOp.status = 200

\* C3: the reset shortcut leaves both queues empty, the problem metadata
\* null and the view "queue", and the later completion of a call that was in
\* flight at the reset changes none of them.
C3_ResetClears ==
  [][ /\ lastOp'.op = "reset" =>
           /\ screenshotQueue' = <<>> /\ extraScreenshotQueue' = <<>>
           /\ problemInfo' = Null /\ view' = "queue"
      /\ (lastOp'.op = "respond" /\ lastOp'.dropped = "reset") =>
           UNCHANGED <<screenshotQueue, extraScreenshotQueue, problemInfo, view>>
    ]_vars

\* an extraction that was in flight at the reset has succeeded afterwards
C3_Witness ==
  /\ lastOp.op = "respond" /\ lastOp.dropped = "reset"
  /\ lastOp.kind = "extract" /\ lastOp.status = 200
  /\ problemInfo = Null /\ view = "queue"

\* C4: every reset-view notification was sent when the in-flight request was
\* already cancelled, both queues empty, the problem metadata null and the
\* view "queue".
C4_ResetThenNotify ==
  /\ seenAtReset.inflight = Null
  /\ seenAtReset.queued = 0
  /\ seenAtReset.problemInfo = Null
  /\ seenAtReset.view = "queue"

\* the reset shortcut has just cancelled an attempt and notified the UI
C4_Witness ==
  /\ lastOp.op = "reset" /\ lastOp.id # Null
  /\ outbox # <<>> /\ Last(outbox).ch = "reset-view"

\* a solve request finds nothing to work on
NoInput ==
  \/ mode = "text" /\ \A i \in 1..Len(textQuery) : textQuery[i] = " "
  \/ /\ mode = "screenshot"
     /\ (IF view = "queue" THEN screenshotQueue ELSE extraScreenshotQueue) = <<>>

OfAttempt(seq, id) ==
  LET RECURSIVE pick(_)
      pick(q) == IF q = <<>> THEN <<>>
                 ELSE IF Head(q).id = id
                      THEN <<Head(q).ch>> \o pick(Tail(q))
                      ELSE pick(Tail(q))
  IN  pick(seq)

\* C6: once the background process has sent, to a renderer whose App has
\* mounted, exactly one problem-extracted and then one solution-success for
\* an attempt and both have been taken off the channel, the UI has handled
\* exactly one problem-extracted and then exactly one solution-success.
C6_ExtractedThenSolved ==
  ( /\ appEffect # "unmounted"
    /\ Len(emitted) = 2
    /\ emitted[1].ch = PROCESSING_EVENTS.PROBLEM_EXTRACTED
    /\ emitted[2].ch = PROCESSING_EVENTS.SOLUTION_SUCCESS
    /\ \A i \in 1..Len(outbox) : outbox[i].id # emitted[1].id )
  => OfAttempt(uiHandled, emitted[1].id)
       = <<PROCESSING_EVENTS.PROBLEM_EXTRACTED,
           PROCESSING_EVENTS.SOLUTION_SUCCESS>>

\* C7: a call that is answered with HTTP 429 ends the attempt with the
\* out-of-credits notification, whatever the kind of call.
C7_OutOfCredits ==
  (lastOp.op = "respond" /\ lastOp.status = HttpTooManyRequests
     /\ lastOp.dropped = "" /\ mainWindow)
  => /\ current = Null
     /\ lastOp.sent = PROCESSING_EVENTS.API_KEY_OUT_OF_CREDITS

\* the thrown error still tells what the endpoint or the transport said
CarriesUpstream(out, resp) ==
  \/ AxiosMessage(resp.status) \in Range(out.msg)
  \/ resp.body # "" /\ (resp.body \in Range(out.msg) \/ out.data = resp.body)

ErrorResponse ==
  /\ lastOp.op = "api" /\ apiIn.hasKey
  /\ apiIn.resp.status \notin {0, 200, HttpTooManyRequests}

Malformed ==
  /\ lastOp.op = "api" /\ apiIn.hasKey /\ apiIn.resp.status = 200
  /\ ~JSONValid(apiIn.resp.content)

\* C9 as stated: whatever the call, a body that is not valid JSON is parsed
\* a second time after the fence markers are stripped, and the call succeeds
\* exactly when that second parse does.
C9_RetryEveryCall ==
  Malformed =>
    /\ apiOut.parses = 2
    /\ apiOut.ok <=> JSONValid(StripFence(apiIn.resp.content))

\* C9 amended: a text query parses a body that is not valid JSON a second
\* time after stripping the fence markers and succeeds exactly when the
\* second parse does; extraction, solution and debug calls parse once and
\* fail.
C9_RetryTextOnly ==
  Malformed =>
    IF apiIn.kind = "text"
    THEN /\ apiOut.parses = 2
         /\ apiOut.ok <=> JSONValid(StripFence(apiIn.resp.content))
         /\ apiOut.ok => apiOut.value = StripFence(apiIn.resp.content)
    ELSE apiOut.parses = 1 /\ ~apiOut.ok

\* a text query whose body is a fence marker followed by a number succeeded
\* on the second parse
C9_Witness ==
  /\ lastOp.op = "api" /\ apiIn.hasKey /\ apiIn.kind = "text"
  /\ apiIn.resp.content = <<"'", "'", "'", "a", "1">>
  /\ apiOut.ok /\ apiOut.parses = 2 /\ apiOut.value = <<"1">>

Tenth(n) == n \div 10

\* C12: with a window, a right or left move changes x by one tenth of the
\* screen width and a down or up move changes y by one tenth of the screen
\* height, whenever that step stays within the clamp of the direction.
C12_TenthPerMove ==
  [][ mainWindow =>
        /\ ( /\ lastOp'.op = "moveWindowRight"
             /\ 2 * (bounds.x + Tenth(screenWidth)) <= 2 * screenWidth - bounds.width )
           => bounds'.x = bounds.x + Tenth(screenWidth)
        /\ ( /\ lastOp'.op = "moveWindowLeft"
             /\ 2 * (bounds.x - Tenth(screenWidth)) >= -bounds.width )
           => bounds'.x = bounds.x - Tenth(screenWidth)
        /\ ( /\ lastOp'.op = "moveWindowDown"
             /\ 2 * (bounds.y + Tenth(screenHeight)) <= 2 * screenHeight - bounds.height )
           => bounds'.y = bounds.y + Tenth(screenHeight)
        /\ ( /\ lastOp'.op = "moveWindowUp"
             /\ 2 * (bounds.y - Tenth(screenHeight)) >= -bounds.height )
           => bounds'.y = bounds.y - Tenth(screenHeight)
    ]_vars

\* C13: with a window, after a move at least half of the window is on the screen in the
\* direction of travel: x <= screenWidth - width/2 after a right move,
\* x >= -width/2 after a left move, y <= screenHeight - height/2 after a down
\* move, y >= -height/2 after an up move.
C13_HalfOnScreen ==
  mainWindow =>
    /\ lastOp.op = "moveWindowRight" => 2 * bounds.x <= 2 * screenWidth - bounds.width
    /\ lastOp.op = "moveWindowLeft"  => 2 * bounds.x >= -bounds.width
    /\ lastOp.op = "moveWindowDown"  => 2 * bounds.y <= 2 * screenHeight - bounds.height
    /\ lastOp.op = "moveWindowUp"    => 2 * bounds.y >= -bounds.height

ApplicationState ==
  <<view, mode, textQuery, problemInfo, hasDebugged,
    screenshotQueue, extraScreenshotQueue, shView,
    current, calls, aborted, winVars, outbox>>

\* C15: while no window exists, a capture, solve, reset or toggle-mode
\* shortcut changes nothing of the application state.
C15_NoWindowNoOp ==
  [][ (~mainWindow /\ (Capture \/ Solve \/ Reset \/ ToggleMode))
        => UNCHANGED ApplicationState
    ]_vars

\* callbacks subscribed to a channel whose handle has not been called
Subscribed(ch) == {h.fn : h \in {g \in handles : Exposed[g.api] = ch}}

\* C16: for every notification kind of the bridge, a notification invokes
\* exactly the callbacks that are subscribed to its channel and have not been
\* unsubscribed, each once, after any subscribe / unsubscribe cycles.
C16_UnsubscribeRemoves ==
  lastOp.op = "notify" => invoked = Subscribed(lastOp.sent)

\* channels the background process sends on
EmittedChannels ==
  {"screenshot-taken", "reset-view", "mode-changed"}
    \cup {PROCESSING_EVENTS[k] : k \in DOMAIN PROCESSING_EVENTS}

\* C17: every channel the background process sends on has a subscription
\* function in the bridge for that same channel, and once a mounted UI has
\* taken the last mode-changed notification off the channel the mode it
\* shows is the mode of Application State.
C17_EveryKindSubscribable ==
  [][ /\ \A ch \in EmittedChannels : \E api \in DOMAIN Exposed : Exposed[api] = ch
      /\ ( /\ Deliver
           /\ appEffect # "unmounted"
           /\ Head(outbox).ch = "mode-changed"
           /\ \A i \in 1..Len(outbox') : outbox'[i].ch # "mode-changed" )
         => uiMode' = mode'
    ]_vars

\* C18: when a mounted UI takes an unauthorized notification off the
\* channel, every cached result is removed, the user is signed out, the
\* persisted session is cleared and the sign-in view is shown.
C18_UnauthorizedSignsOut ==
  [][ ( /\ Deliver
        /\ appEffect # "unmounted"
        /\ Head(outbox).ch = PROCESSING_EVENTS.UNAUTHORIZED )
      => /\ cache' \cap CacheKeys = {}
         /\ ~sbSession' /\ ~stored' /\ ~isAuthenticated'
    ]_vars

C20_QueuesHoldLiveFiles ==
  [][ /\ \A p \in Range(screenshotQueue') \cup Range(extraScreenshotQueue') :
           p \in files'
      /\ \A p \in Paths :
           (DeleteScreenshot(p) /\ p \notin files)
             => /\ lastOp'.sent = "failure"
                /\ UNCHANGED <<screenshotQueue, extraScreenshotQueue>>
    ]_vars

\* a delete of a path that was captured and deleted before fails while
\* another capture is still queued
C20_Witness ==
  /\ lastOp.op = "deleteScreenshot" /\ lastOp.sent = "failure"
  /\ lastOp.id < nextShot /\ lastOp.id \notin files
  /\ Range(screenshotQueue) \cup Range(extraScreenshotQueue) # {}

\* the notifications of input-missing and quota-exceeded
RecoveredChannels ==
  {PROCESSING_EVENTS.NO_SCREENSHOTS, PROCESSING_EVENTS.NO_QUERY,
   PROCESSING_EVENTS.API_KEY_OUT_OF_CREDITS}

\* C21: a solve or debug request that ends in input-missing, and an external
\* call that ends in quota-exceeded, leave the cached problem metadata and
\* the UI's cached results as they were and leave no attempt in flight (the
\* coordinator is Idle); the UI's handling of the notification leaves its
\* cache as it was too.
C21_RecoveredLocally ==
  [][ /\ ( \/ lastOp'.op = "solve" /\ NoInput
          \/ /\ lastOp'.op = "respond"
             /\ lastOp'.sent = PROCESSING_EVENTS.API_KEY_OUT_OF_CREDITS )
        => /\ problemInfo' = problemInfo /\ cache' = cache
           /\ current' = Null
      /\ (Deliver /\ Head(outbox).ch \in RecoveredChannels) => cache' = cache
    ]_vars

\* C22: a failure while creating or resizing the window is logged and does
\* not reach the caller, and after a failed createWindow the controller holds
\* no window, is not visible and has no stored position or size.
C22_WindowFailureIsNoOp ==
  [][ /\ lastOp'.op \in {"createWindowFails", "setWindowDimensionsFails"}
           => lastOp'.kind = "logged"
      /\ lastOp'.op = "createWindowFails"
           => /\ ~mainWindow' /\ ~isWindowVisible'
              /\ windowPosition' = <<>> /\ windowSize' = <<>>
    ]_vars

\* C23: during a capture the window is hidden before the image is taken
\* and shown after it: the window is not on the screen at the moment the
\* image is taken, and it is on the screen, and flagged visible, when the
\* capture returns with the window still there.
C23_HiddenWhileCapturing ==
  [][ /\ lastOp'.op = "captureImage" => lastOp'.kind = "hidden"
      /\ (lastOp'.op = "captureShow" /\ mainWindow')
           => (shown' /\ isWindowVisible')
    ]_vars

\* C24: the view held by the Screenshot Store always equals Application
\* State's view, whatever setView, clearQueues and reset have done, so a
\* capture is appended to the main queue when the view is "queue" and to the
\* extra queue when it is "solutions", and the other queue is left alone.
C24_StoreViewFollows ==
  [][ /\ shView' = view'
      /\ nextShot' = nextShot + 1 =>
           IF view = "queue"
           THEN /\ screenshotQueue' = Append(screenshotQueue, nextShot)
                /\ extraScreenshotQueue' = extraScreenshotQueue
           ELSE /\ extraScreenshotQueue' = Append(extraScreenshotQueue, nextShot)
                /\ screenshotQueue' = screenshotQueue
    ]_vars

\* one capture was queued in the "queue" view and, after the view changed,
\* another in the "solutions" view
C24_Witness ==
  /\ view = "solutions" /\ shView = "solutions"
  /\ Len(screenshotQueue) = 1 /\ Len(extraScreenshotQueue) = 1

C26_FrontWhenShown ==
  [][ (lastOp'.op = "toggleMainWindow" /\ lastOp'.dropped = "darwin") =>
        (lastOp'.kind = "front" <=> (mainWindow' /\ shown' /\ ~shown))
    ]_vars

ChildrenRendered == load # "none" /\ isAuthenticated /\ sub.has

C30_ResetFrame ==
  [][ /\ lastOp'.op = "reset" =>
           /\ mode' = mode /\ textQuery' = textQuery
           /\ hasDebugged' = hasDebugged
           /\ calls' = calls /\ nextId' = nextId /\ nextShot' = nextShot
           /\ WinState' = WinState
           /\ hasDebugged =>
                maxAllowedWidth(workArea, hasDebugged')
                  = (workArea.width * 3) \div 4
      /\ ToggleMode =>
           /\ mode' # mode
           /\ view' = view /\ shView' = shView /\ textQuery' = textQuery
           /\ problemInfo' = problemInfo /\ hasDebugged' = hasDebugged
           /\ screenshotQueue' = screenshotQueue
           /\ extraScreenshotQueue' = extraScreenshotQueue
           /\ current' = current /\ calls' = calls /\ aborted' = aborted
           /\ nextId' = nextId /\ WinState' = WinState
    ]_vars

\* a reset after a debug pass has succeeded
C30_Witness ==
  /\ lastOp.op = "reset" /\ hasDebugged
  /\ view = "queue" /\ problemInfo = Null
  /\ screenshotQueue = <<>> /\ extraScreenshotQueue = <<>>

====
